---------------------------- MODULE Spec2Model ----------------------------
(***************************************************************************)
(* A model of src/src/cards.rs: the card type and its checked constructor, *)
(* the five-card classifier get_best_hand, the used/unused card resolver   *)
(* and the two frequency engines of Game (get_best_hand_frequenicies and   *)
(* the older get_best_hand_frequencies).                                   *)
(*                                                                         *)
(* Cards are records [suit, value]; a Vec or slice is a sequence; an       *)
(* Option is a sequence of length at most one; a HashMap<Hand, u8> is a    *)
(* function from the keys it holds to their counters.                      *)
(***************************************************************************)
EXTENDS Integers, Sequences, FiniteSets

(***************************************************************************)
(* Program constants.                                                      *)
(***************************************************************************)
Suits == <<"Spades", "Diamonds", "Clubs", "Hearts">>

SuitSet == { Suits[i] : i \in 1..Len(Suits) }

MinValue == 2

MaxValue == 14

U8Max == 255

HandSize == 5

(***************************************************************************)
(* Bounds of the exploration.                                              *)
(*   LowRanks, HighRanks  the hands given to the classifier are drawn from *)
(*                        the cards of the LowRanks lowest and the         *)
(*                        HighRanks highest ranks, in all four suits;      *)
(*   PermLowRanks         the hands whose every ordering is tried are      *)
(*                        drawn from the PermLowRanks lowest ranks and the *)
(*                        ace, in all four suits;                          *)
(*   DeckHigh             the engines are run on a deck cut at this rank   *)
(*                        (the source deals ranks 2..14);                  *)
(*   MaxDeal              the games given to the engines deal seven cards  *)
(*                        in deck order from each of the offsets           *)
(*                        0..MaxDeal of that deck.                         *)
(***************************************************************************)
LowRanks == 4

HighRanks == 5

PermLowRanks == 4

DeckHigh == 6

MaxDeal == 2

VARIABLES
    arg_suit,       \* Card::build: the suit passed
    arg_value,      \* Card::build: the u8 value passed
    built,          \* Card::build: the Result returned, NotBuilt before the call
    hand,           \* get_best_hand: the slice passed, in the caller's order
    best,           \* get_best_hand: the Hand returned, NoHand before the call
    game,           \* the Game: [hole, flop, turn, river]
    deck_high,      \* the highest rank get_unused_cards deals (14 in the source)
    overflow_checks,\* TRUE in a build that panics on integer overflow, FALSE in one that wraps
    keep_hands,     \* whether the history of card sets is kept in this exploration
    fn,             \* the method of Game being run, "none" before the call
    status,         \* "ready", "used", "unused", "running", "returned", "index_panic", "overflow_panic"
    used_cards,     \* the local used_cards
    unused_cards,   \* the local unused_cards
    sites,          \* the method's calls of update_frequencies for this game, in order
    job,            \* position in the method: index of the call site being run
    comb,           \* position in that loop: the indices of the current combination
    this_hand,      \* the hand last passed to get_best_hand by the method
    this_table,     \* the table that hand was classified for: "my", "their", "none" before
    my_hand_frequencies,    \* the first table returned
    their_hand_frequencies, \* the second table returned
    my_exact,       \* history: per key, the number of hands classified to it, first table
    their_exact,    \* history: the same for the second table
    my_hands,       \* history: the card sets classified into the first table, in order
    their_hands     \* history: the card sets classified into the second table, in order

cardVars == <<arg_suit, arg_value, built>>

handVars == <<hand, best>>

gameVars == <<game, deck_high, overflow_checks, keep_hands>>

callVars == <<fn, status, used_cards, unused_cards, sites, job, comb, this_hand, this_table>>

tableVars == <<my_hand_frequencies, their_hand_frequencies>>

historyVars == <<my_exact, their_exact, my_hands, their_hands>>

engineVars == <<gameVars, callVars, tableVars, historyVars>>

vars == <<cardVars, handVars, engineVars>>

(***************************************************************************)
(* Card and Card::build.                                                   *)
(***************************************************************************)
Card(s, v) == [suit |-> s, value |-> v]

NotBuilt == [ok |-> FALSE, card |-> <<>>, err |-> "not called"]

Ok(c) == [ok |-> TRUE, card |-> <<c>>, err |-> ""]

Err(msg) == [ok |-> FALSE, card |-> <<>>, err |-> msg]

card_build_wide(suit, value) ==
    IF ~(value \in MinValue..(MaxValue + 1))
    THEN Err("Value must be between 2 (Two) and 14 (Ace)")
    ELSE Ok(Card(suit, value))

card_build(suit, value) ==
    IF ~(value \in MinValue..MaxValue)
    THEN Err("Value must be between 2 (Two) and 14 (Ace)")
    ELSE Ok(Card(suit, value))

(***************************************************************************)
(* The Hand enum: the variant and its payload (0 where the variant has     *)
(* fewer fields).  PanicHand stands for a call that panicked, NoHand for   *)
(* no call yet.                                                            *)
(***************************************************************************)
HandOf(k, a, b) == [kind |-> k, a |-> a, b |-> b]

HighCard(r) == HandOf("HighCard", r, 0)

Pair(r) == HandOf("Pair", r, 0)

TwoPair(h, l) == HandOf("TwoPair", h, l)

ThreeOfAKind(r) == HandOf("ThreeOfAKind", r, 0)

Straight(r) == HandOf("Straight", r, 0)

Flush(r) == HandOf("Flush", r, 0)

FullHouse(t, p) == HandOf("FullHouse", t, p)

FourOfAKind(r) == HandOf("FourOfAKind", r, 0)

StraightFlush(r) == HandOf("StraightFlush", r, 0)

RoyalFlush == HandOf("RoyalFlush", 0, 0)

PanicHand == HandOf("panic", 0, 0)

NoHand == HandOf("none", 0, 0)

Highest(S) == CHOOSE r \in S : \A q \in S : q <= r

Lowest(S) == CHOOSE r \in S : \A q \in S : r <= q

Max2(x, y) == IF x >= y THEN x ELSE y

Min2(x, y) == IF x <= y THEN x ELSE y

(***************************************************************************)
(* get_best_hand.  Slices are 0-based and half-open in the source and      *)
(* 1-based and closed here: values[2..4] is SubSeq(values, 3, 4).          *)
(***************************************************************************)
is_all_same_value(values) == \A i \in 1..Len(values) : values[i] = values[1]

\* windows(k): every run of k consecutive elements, none when the slice is shorter
Windows(values, k) == { SubSeq(values, i, i + k - 1) : i \in 1..(Len(values) - k + 1) }

RECURSIVE InsertByValue(_, _)
InsertByValue(sorted, c) ==
    IF sorted = <<>> THEN <<c>>
    ELSE IF sorted[Len(sorted)].value <= c.value THEN Append(sorted, c)
    ELSE Append(InsertByValue(SubSeq(sorted, 1, Len(sorted) - 1), c), sorted[Len(sorted)])

RECURSIVE StableSort(_)
StableSort(h) ==
    IF h = <<>> THEN <<>>
    ELSE InsertByValue(StableSort(SubSeq(h, 1, Len(h) - 1)), h[Len(h)])

unsorted(h) == h

\* hand.sort_by(|a, b| a.value.partial_cmp(&b.value).unwrap()): stable, by value only
sort_by_value(h) == StableSort(h)

is_straight(values) ==
    \/ values = <<2, 3, 4, 5, 14>>
    \/ ~ \E i \in 1..(Len(values) - 1) : values[i] + 1 # values[i + 1]

is_flush(suits) == ~ \E i \in 1..Len(suits) : suits[i] # suits[1]

is_four(values) == \E w \in Windows(values, 4) : is_all_same_value(w)

quads(values) == values[3]

\* <<is_full_house, full_house_trips, full_house_pair>>
full_house(values) ==
    LET n == Len(values)
    IN  IF is_all_same_value(SubSeq(values, 1, 2)) /\ is_all_same_value(SubSeq(values, 3, n))
        THEN <<TRUE, values[5], values[1]>>
        ELSE IF is_all_same_value(SubSeq(values, 1, 3)) /\ is_all_same_value(SubSeq(values, 4, n))
        THEN <<TRUE, values[1], values[5]>>
        ELSE <<FALSE, 0, 0>>

is_three(values) == \E w \in Windows(values, 3) : is_all_same_value(w)

three_trips_low(values) == values[1]

three_trips(values) == values[3]

\* <<is_two_pair, high_pair, low_pair>>
two_pair(values) ==
    LET n == Len(values)
    IN  IF is_all_same_value(SubSeq(values, 1, 2)) /\ is_all_same_value(SubSeq(values, 3, 4))
        THEN <<TRUE, Max2(values[1], values[3]), Min2(values[1], values[3])>>
        ELSE IF is_all_same_value(SubSeq(values, 1, 2)) /\ is_all_same_value(SubSeq(values, 4, n))
        THEN <<TRUE, Max2(values[1], values[4]), Min2(values[1], values[4])>>
        ELSE IF is_all_same_value(SubSeq(values, 2, 3)) /\ is_all_same_value(SubSeq(values, 4, n))
        THEN <<TRUE, Max2(values[2], values[4]), Min2(values[2], values[4])>>
        ELSE <<FALSE, 0, 0>>

\* <<is_pair, pair>>: the first adjacent equal pair, by ascending position
pair(values) ==
    LET at == { i \in 1..(Len(values) - 1) : values[i] = values[i + 1] }
    IN  IF at = {} THEN <<FALSE, 0>>
        ELSE <<TRUE, values[CHOOSE i \in at : \A j \in at : i <= j]>>

\* A hand shorter than five cards panics: hand[4] (line 96) is evaluated on
\* every path, after the slices values[2..4], values[..3], values[4] that may
\* panic before it.  No unwrap() is reached with None: each is guarded by its flag.
index_panics(h) == Len(h) < HandSize

\* the if-chain of lines 98-118, on the sorted hand
resolve(sorted, values, suits) ==
    LET straight == is_straight(values)
        flush == is_flush(suits)
        fh == full_house(values)
        tp == two_pair(values)
        pr == pair(values)
        high_card == sorted[5].value
    IN  IF straight /\ flush /\ high_card = 14 THEN RoyalFlush
        ELSE IF straight /\ flush THEN StraightFlush(high_card)
        ELSE IF is_four(values) THEN FourOfAKind(quads(values))
        ELSE IF fh[1] THEN FullHouse(fh[2], fh[3])
        ELSE IF flush THEN Flush(high_card)
        ELSE IF straight THEN Straight(high_card)
        ELSE IF is_three(values) THEN ThreeOfAKind(three_trips(values))
        ELSE IF tp[1] THEN TwoPair(tp[2], tp[3])
        ELSE IF pr[1] THEN Pair(pr[2])
        ELSE HighCard(high_card)

\* lines 48-49: the values and the suits of the sorted hand
values_and_suits(sorted) ==
    resolve(sorted, [i \in 1..Len(sorted) |-> sorted[i].value],
                    [i \in 1..Len(sorted) |-> sorted[i].suit])

get_best_hand(h) ==
    IF index_panics(h) THEN PanicHand ELSE values_and_suits(sort_by_value(h))

(***************************************************************************)
(* The deck, in the order get_unused_cards generates it: suit by suit,     *)
(* each suit from rank 2 up to rank top.                                   *)
(***************************************************************************)
DeckUpTo(top) ==
    LET per == top - MinValue + 1
    IN  [i \in 1..(Len(Suits) * per) |->
            card_build(Suits[((i - 1) \div per) + 1], ((i - 1) % per) + MinValue).card[1]]

FullDeck == DeckUpTo(MaxValue)

Range(s) == { s[i] : i \in 1..Len(s) }

Contains(s, c) == \E i \in 1..Len(s) : s[i] = c

NoRepeats(s) == \A i, j \in 1..Len(s) : i # j => s[i] # s[j]

(***************************************************************************)
(* Values of the variables a specification does not use.                   *)
(***************************************************************************)
NoGame == [hole |-> <<>>, flop |-> <<>>, turn |-> <<>>, river |-> <<>>]

EmptyTable == << >>

CardIdle ==
    /\ arg_suit = Suits[1]
    /\ arg_value = 0
    /\ built = NotBuilt

HandIdle ==
    /\ hand = <<>>
    /\ best = NoHand

CallIdle ==
    /\ fn = "none"
    /\ status = "ready"
    /\ used_cards = <<>>
    /\ unused_cards = <<>>
    /\ sites = <<>>
    /\ job = 0
    /\ comb = <<>>
    /\ this_hand = <<>>
    /\ this_table = "none"
    /\ my_hand_frequencies = EmptyTable
    /\ their_hand_frequencies = EmptyTable
    /\ my_exact = EmptyTable
    /\ their_exact = EmptyTable
    /\ my_hands = <<>>
    /\ their_hands = <<>>

EngineIdle ==
    /\ game = NoGame
    /\ deck_high = MaxValue
    /\ overflow_checks = FALSE
    /\ keep_hands = FALSE
    /\ CallIdle

(***************************************************************************)
(* SpecBuild: Card::build on every suit and every u8 value.                *)
(***************************************************************************)
InitBuild ==
    /\ arg_suit \in SuitSet
    /\ arg_value \in 0..U8Max
    /\ built = NotBuilt
    /\ HandIdle
    /\ EngineIdle

Build ==
    /\ built = NotBuilt
    /\ built' = card_build(arg_suit, arg_value)
    /\ UNCHANGED <<arg_suit, arg_value, handVars, engineVars>>

NextBuild == Build

SpecBuild == InitBuild /\ [][NextBuild]_vars

(***************************************************************************)
(* SpecHand: get_best_hand on every five-card hand of the cards of the     *)
(* LowRanks lowest and HighRanks highest ranks, passed in deck order.      *)
(***************************************************************************)
HandRanks ==
    (MinValue..(MinValue + LowRanks - 1)) \cup ((MaxValue - HighRanks + 1)..MaxValue)

CardsOfRanks(ranks) == SelectSeq(FullDeck, LAMBDA c : c.value \in ranks)

HandDeck == CardsOfRanks(HandRanks)

InitHand ==
    /\ \E a \in 1..Len(HandDeck) : \E b \in (a + 1)..Len(HandDeck) :
       \E c \in (b + 1)..Len(HandDeck) : \E e \in (c + 1)..Len(HandDeck) :
       \E f \in (e + 1)..Len(HandDeck) :
           hand = <<HandDeck[a], HandDeck[b], HandDeck[c], HandDeck[e], HandDeck[f]>>
    /\ best = NoHand
    /\ CardIdle
    /\ EngineIdle

Classify ==
    /\ best = NoHand
    /\ best' = get_best_hand(hand)
    /\ UNCHANGED <<hand, cardVars, engineVars>>

NextHand == Classify

SpecHand == InitHand /\ [][NextHand]_vars

(***************************************************************************)
(* SpecPerm: get_best_hand on every ordering of every five-card hand of    *)
(* the cards of the PermLowRanks lowest ranks and the ace, in three suits. *)
(* Reorder passes the same cards again, either with the first two          *)
(* exchanged or with the first moved to the end; the two generate every    *)
(* ordering of the five cards.                                             *)
(***************************************************************************)
PermRanks == (MinValue..(MinValue + PermLowRanks - 1)) \cup {MaxValue}

PermSuitSet == SuitSet \ {Suits[Len(Suits)]}

PermDeck == SelectSeq(FullDeck, LAMBDA c : c.value \in PermRanks /\ c.suit \in PermSuitSet)

ExchangeFirstTwo(h) == <<h[2], h[1]>> \o SubSeq(h, 3, Len(h))

FirstToEnd(h) == Append(Tail(h), h[1])

InitPerm ==
    /\ \E a \in 1..Len(PermDeck) : \E b \in (a + 1)..Len(PermDeck) :
       \E c \in (b + 1)..Len(PermDeck) : \E e \in (c + 1)..Len(PermDeck) :
       \E f \in (e + 1)..Len(PermDeck) :
           hand = <<PermDeck[a], PermDeck[b], PermDeck[c], PermDeck[e], PermDeck[f]>>
    /\ best = NoHand
    /\ CardIdle
    /\ EngineIdle

Reorder ==
    /\ best # NoHand
    /\ hand' \in {ExchangeFirstTwo(hand), FirstToEnd(hand)}
    /\ best' = get_best_hand(hand')
    /\ UNCHANGED <<cardVars, engineVars>>

NextPerm == Classify \/ Reorder

SpecPerm == InitPerm /\ [][NextPerm]_vars

(***************************************************************************)
(* Game, get_used_cards and get_unused_cards.                              *)
(***************************************************************************)
Some(c) == <<c>>

None == <<>>

\* The game whose seven cards are dealt from the deck cut at rank top, every
\* step-th card in deck order from offset d: hole, flop, then as many streets
\* as asked.  The cards are pairwise distinct when step and the size of the
\* deck have no common factor.
Deal(d, step, streets, top) ==
    LET deck == DeckUpTo(top)
        at(j) == deck[((d + j * step) % Len(deck)) + 1]
    IN  [hole |-> <<at(0), at(1)>>,
         flop |-> <<at(2), at(3), at(4)>>,
         turn |-> IF streets >= 1 THEN Some(at(5)) ELSE None,
         river |-> IF streets >= 2 THEN Some(at(6)) ELSE None]

get_used_cards_board(g) == g.flop \o g.turn \o g.river

get_used_cards(g) == g.hole \o g.flop \o g.turn \o g.river

get_unused_cards_by_value(used) ==
    SelectSeq(DeckUpTo(deck_high),
              LAMBDA c : ~ \E i \in 1..Len(used) : used[i].value = c.value)

get_unused_cards_all(used) == DeckUpTo(deck_high)

get_unused_cards(used) ==
    SelectSeq(DeckUpTo(deck_high), LAMBDA c : ~Contains(used, c))

(***************************************************************************)
(* combinations(k) of itertools over a sequence of n items: the strictly   *)
(* increasing index tuples of length k, in lexicographic order; one empty  *)
(* tuple for k = 0 and none for k > n.                                     *)
(***************************************************************************)
FirstComb(k) == [i \in 1..k |-> i]

IsLastComb(c, n) == \A i \in 1..Len(c) : c[i] = n - Len(c) + i

NextComb(c, n) ==
    LET k == Len(c)
        movable == { i \in 1..k : c[i] < n - k + i }
        p == Highest(movable)
    IN  [i \in 1..k |-> IF i < p THEN c[i] ELSE c[p] + 1 + (i - p)]

\* the 2-combinations of the three flop cards, in the order combinations(2) yields them
flop_combinations_2(flop) ==
    <<<<flop[1], flop[2]>>, <<flop[1], flop[3]>>, <<flop[2], flop[3]>>>>

(***************************************************************************)
(* The calls of update_frequencies a method makes, as the sequence of its  *)
(* call sites in execution order.  Each entry is one site:                 *)
(*   "insert"        my_hand_frequencies.insert(get_best_hand(hand), 1);   *)
(*   "update"        self.update_frequencies(hand) once;                   *)
(*   "combinations"  a loop over unused_cards.combinations(k), calling     *)
(*                   self.update_frequencies(hand ++ combination).         *)
(***************************************************************************)
Site(op, table, h, k) == [op |-> op, table |-> table, hand |-> h, k |-> k]

update_frequencies_with_unused_cards(table, h) ==
    <<Site("combinations", table, h, HandSize - Len(h))>>

update_frequencies_from_starting_cards(g, starting_cards, max_unused_cards, table) ==
    LET remaining_length == HandSize - Len(starting_cards)
        hand0 == starting_cards
    IN  IF remaining_length = 0 THEN <<Site("update", table, hand0, 0)>>
        ELSE IF g.turn # None THEN
            LET hand1 == Append(hand0, g.turn[1])
                remaining1 == remaining_length - 1
            IN  IF remaining1 = 0 THEN <<Site("update", table, hand1, 0)>>
                ELSE IF g.river # None THEN
                    LET remaining2 == remaining1 - 1
                    IN  IF remaining2 = 0
                        THEN <<Site("update", table, Append(hand1, g.river[1]), 0)>>
                        ELSE IF remaining2 <= max_unused_cards
                        THEN update_frequencies_with_unused_cards(table, hand1)
                        ELSE <<>>
                ELSE IF remaining1 <= max_unused_cards
                THEN update_frequencies_with_unused_cards(table, hand1)
                ELSE <<>>
        ELSE IF remaining_length <= max_unused_cards
        THEN update_frequencies_with_unused_cards(table, hand0)
        ELSE <<>>

get_best_hand_frequenicies(g) ==
    LET two == flop_combinations_2(g.flop)
    IN  update_frequencies_from_starting_cards(g, g.hole, 2, "my")
        \o update_frequencies_from_starting_cards(g, <<g.hole[1]>>, 2, "my")
        \o update_frequencies_from_starting_cards(g, <<g.hole[2]>>, 2, "my")
        \o update_frequencies_from_starting_cards(g, g.flop, 2, "their")
        \o update_frequencies_from_starting_cards(g, two[1], 3, "their")
        \o update_frequencies_from_starting_cards(g, two[2], 3, "their")
        \o update_frequencies_from_starting_cards(g, two[3], 3, "their")
        \o update_frequencies_from_starting_cards(g, <<g.flop[1]>>, 4, "their")
        \o update_frequencies_from_starting_cards(g, <<g.flop[2]>>, 4, "their")
        \o update_frequencies_from_starting_cards(g, <<g.flop[3]>>, 4, "their")

\* if let Some(turn) / if let Some(river) / if both are None, with hand h
IfTurn(g, then) == IF g.turn # None THEN then ELSE <<>>

IfRiver(g, then) == IF g.river # None THEN then ELSE <<>>

IfNeither(g, then) == IF g.turn = None /\ g.river = None THEN then ELSE <<>>

\* lines 243-264; hand is declared outside the loop and grows by two cards each round
hole_and_2_of_flop(g) ==
    LET two == flop_combinations_2(g.flop)
        grown(n) == IF n = 1 THEN g.hole \o two[1]
                    ELSE IF n = 2 THEN g.hole \o two[1] \o two[2]
                    ELSE g.hole \o two[1] \o two[2] \o two[3]
        round(n) ==
            IfTurn(g, <<Site("update", "my", Append(grown(n), g.turn[1]), 0)>>)
            \o IfRiver(g, <<Site("update", "my", Append(grown(n), g.river[1]), 0)>>)
            \o IfNeither(g, <<Site("combinations", "my", grown(n), 1)>>)
    IN  round(1) \o round(2) \o round(3)

\* lines 265-292; hand is declared outside the loop and grows by one card each round
hole_and_1_of_flop(g) ==
    LET grown(n) == g.hole \o SubSeq(g.flop, 1, n)
        round(n) ==
            IfTurn(g, IF g.river # None
                      THEN <<Site("update", "my", grown(n) \o g.turn \o g.river, 0)>>
                      ELSE <<Site("combinations", "my", grown(n) \o g.turn, 1)>>)
            \o IfNeither(g, <<Site("combinations", "my", grown(n), 2)>>)
    IN  round(1) \o round(2) \o round(3)

\* lines 293-314
one_of_hole_and_flop(g) ==
    LET round(n) ==
            LET h == <<g.hole[n]>> \o g.flop
            IN  IfTurn(g, <<Site("update", "my", Append(h, g.turn[1]), 0)>>)
                \o IfRiver(g, <<Site("update", "my", Append(h, g.river[1]), 0)>>)
                \o IfNeither(g, <<Site("combinations", "my", h, 1)>>)
    IN  round(1) \o round(2)

\* lines 315-337; with turn and river the hand passed is [hole_card, turn, river];
\* otherwise hand grows by two flop cards each inner round
one_of_hole_and_2_of_flop(g) ==
    LET two == flop_combinations_2(g.flop)
        round(n) ==
            LET h == <<g.hole[n]>>
            IN  IfTurn(g, IfRiver(g, <<Site("update", "my", h \o g.turn \o g.river, 0)>>))
                \o IfNeither(g, <<Site("combinations", "my", h \o two[1], 2),
                                  Site("combinations", "my", h \o two[1] \o two[2], 2),
                                  Site("combinations", "my", h \o two[1] \o two[2] \o two[3], 2)>>)
    IN  round(1) \o round(2)

\* lines 338-367
three_of_flop(g) ==
    IfTurn(g, IfRiver(g, <<Site("update", "their", g.flop \o g.turn \o g.river, 0)>>)
              \o <<Site("combinations", "their", g.flop \o g.turn, 1)>>)
    \o IfRiver(g, <<Site("combinations", "their", g.flop \o g.river, 1)>>)
    \o <<Site("combinations", "their", g.flop, 2)>>

\* lines 368-398
two_of_flop(g) ==
    LET two == flop_combinations_2(g.flop)
        round(n) ==
            IfTurn(g, IfRiver(g, <<Site("combinations", "their", two[n] \o g.turn \o g.river, 1)>>)
                      \o <<Site("combinations", "their", two[n] \o g.turn, 2)>>)
            \o IfRiver(g, <<Site("combinations", "their", two[n] \o g.river, 2)>>)
    IN  round(1) \o round(2) \o round(3)

\* lines 399-411
one_of_flop(g) ==
    LET round(n) ==
            IfTurn(g, IfRiver(g, <<Site("combinations", "their",
                                        <<g.flop[n]>> \o g.turn \o g.river, 2)>>))
    IN  round(1) \o round(2) \o round(3)

get_best_hand_frequencies(g) ==
    <<Site("insert", "my", g.hole \o g.flop, 0)>>
    \o hole_and_2_of_flop(g)
    \o hole_and_1_of_flop(g)
    \o one_of_hole_and_flop(g)
    \o one_of_hole_and_2_of_flop(g)
    \o three_of_flop(g)
    \o two_of_flop(g)
    \o one_of_flop(g)

SitesOf(g, name) ==
    IF name = "get_best_hand_frequenicies" THEN get_best_hand_frequenicies(g)
    ELSE get_best_hand_frequencies(g)

\* the first call site from j on whose loop runs at least once
RECURSIVE FirstSiteFrom(_, _, _)
FirstSiteFrom(ss, j, n) ==
    IF j > Len(ss) \/ ss[j].k <= n THEN j ELSE FirstSiteFrom(ss, j + 1, n)

(***************************************************************************)
(* update_frequencies: the u8 counter of the key, or 1 for a new key.      *)
(***************************************************************************)
Put(table, key, count) ==
    [x \in (DOMAIN table) \cup {key} |-> IF x = key THEN count ELSE table[x]]

Overflows(table, key) == key \in DOMAIN table /\ table[key] = U8Max

update_frequencies(table, key) ==
    IF key \in DOMAIN table
    THEN Put(table, key, (table[key] + 1) % (U8Max + 1))
    ELSE Put(table, key, 1)

\* history: the same count without a width
Tally(exact, key) ==
    IF key \in DOMAIN exact THEN Put(exact, key, exact[key] + 1) ELSE Put(exact, key, 1)

RECURSIVE Pow2(_)
Pow2(n) == IF n = 0 THEN 1 ELSE 2 * Pow2(n - 1)

RECURSIVE SumOver(_, _)
SumOver(f, S) ==
    IF S = {} THEN 0 ELSE LET x == CHOOSE y \in S : TRUE IN f[x] + SumOver(f, S \ {x})

Total(table) == SumOver(table, DOMAIN table)

\* history: a hand as a set of cards, one bit per card of the deck
CardBit(c) ==
    LET suit_index == CHOOSE i \in 1..Len(Suits) : Suits[i] = c.suit
    IN  Pow2((suit_index - 1) * (deck_high - MinValue + 1) + (c.value - MinValue))

CardSet(h) ==
    LET bits == [b \in { CardBit(c) : c \in Range(h) } |-> b]
    IN  Total(bits)

(***************************************************************************)
(* Spec: the two methods of Game, on the games dealt from the deck cut at  *)
(* DeckHigh.  One step is one call of update_frequencies (or the insert of *)
(* line 242); job and comb say where the method stands.  SpecHistory is    *)
(* the same on the game dealt from offset 0, keeping as history the card   *)
(* sets counted into each table.                                           *)
(***************************************************************************)
Init ==
    /\ \E d \in 0..MaxDeal : \E streets \in 0..2 : game = Deal(d, 1, streets, DeckHigh)
    /\ deck_high = DeckHigh
    /\ overflow_checks \in BOOLEAN
    /\ keep_hands = FALSE
    /\ CallIdle
    /\ CardIdle
    /\ HandIdle

Enter(name) ==
    /\ status = "ready"
    /\ fn' = name
    /\ used_cards' = get_used_cards(game)
    /\ unused_cards' = get_unused_cards(used_cards')
    /\ sites' = SitesOf(game, name)
    /\ job' = FirstSiteFrom(sites', 1, Len(unused_cards'))
    /\ comb' = IF job' <= Len(sites') THEN FirstComb(sites'[job'].k) ELSE <<>>
    /\ status' = "running"
    /\ UNCHANGED <<this_hand, this_table, tableVars, historyVars, gameVars, cardVars, handVars>>

CallFrequenicies == Enter("get_best_hand_frequenicies")

CallFrequencies == Enter("get_best_hand_frequencies")

AtSite == status = "running" /\ job <= Len(sites)

TheHand == sites[job].hand \o [i \in 1..Len(comb) |-> unused_cards[comb[i]]]

TheTable == IF sites[job].table = "my" THEN my_hand_frequencies ELSE their_hand_frequencies

\* the u8 counter would pass 255 at this call
AtOverflow ==
    /\ sites[job].op # "insert"
    /\ Overflows(TheTable, get_best_hand(TheHand))

Classified ==
    LET key == get_best_hand(TheHand)
    IN  /\ this_hand' = TheHand
        /\ this_table' = sites[job].table
        /\ IF sites[job].table = "my"
           THEN /\ my_exact' = Tally(my_exact, key)
                /\ my_hands' = IF keep_hands THEN Append(my_hands, CardSet(TheHand)) ELSE my_hands
                /\ UNCHANGED <<their_exact, their_hands>>
           ELSE /\ their_exact' = Tally(their_exact, key)
                /\ their_hands' = IF keep_hands THEN Append(their_hands, CardSet(TheHand)) ELSE their_hands
                /\ UNCHANGED <<my_exact, my_hands>>

Stored ==
    LET key == get_best_hand(TheHand)
        after == IF sites[job].op = "insert" THEN Put(TheTable, key, 1)
                 ELSE update_frequencies(TheTable, key)
    IN  IF sites[job].table = "my"
        THEN my_hand_frequencies' = after /\ UNCHANGED their_hand_frequencies
        ELSE their_hand_frequencies' = after /\ UNCHANGED my_hand_frequencies

Advance ==
    IF IsLastComb(comb, Len(unused_cards))
    THEN LET next == FirstSiteFrom(sites, job + 1, Len(unused_cards))
         IN  /\ job' = next
             /\ comb' = IF next <= Len(sites) THEN FirstComb(sites[next].k) ELSE <<>>
    ELSE /\ job' = job
         /\ comb' = NextComb(comb, Len(unused_cards))

\* get_best_hand returns and the counter is stored
UpdateFrequencies ==
    /\ AtSite
    /\ ~index_panics(TheHand)
    /\ ~AtOverflow
    /\ Classified
    /\ Stored
    /\ Advance
    /\ UNCHANGED <<fn, status, used_cards, unused_cards, sites, gameVars, cardVars, handVars>>

\* *counter += 1 at 255 in a build that wraps
OverflowWrap ==
    /\ AtSite
    /\ ~index_panics(TheHand)
    /\ AtOverflow
    /\ ~overflow_checks
    /\ Classified
    /\ Stored
    /\ Advance
    /\ UNCHANGED <<fn, status, used_cards, unused_cards, sites, gameVars, cardVars, handVars>>

\* *counter += 1 at 255 in a build that checks: "attempt to add with overflow"
OverflowPanic ==
    /\ AtSite
    /\ ~index_panics(TheHand)
    /\ AtOverflow
    /\ overflow_checks
    /\ Classified
    /\ status' = "overflow_panic"
    /\ UNCHANGED <<fn, used_cards, unused_cards, sites, job, comb, tableVars, gameVars, cardVars, handVars>>

\* get_best_hand indexes past the end of the hand it is given
IndexPanic ==
    /\ AtSite
    /\ index_panics(TheHand)
    /\ this_hand' = TheHand
    /\ this_table' = sites[job].table
    /\ status' = "index_panic"
    /\ UNCHANGED <<fn, used_cards, unused_cards, sites, job, comb, tableVars, historyVars,
                   gameVars, cardVars, handVars>>

Return ==
    /\ status = "running"
    /\ job > Len(sites)
    /\ status' = "returned"
    /\ UNCHANGED <<fn, used_cards, unused_cards, sites, job, comb, this_hand, this_table,
                   tableVars, historyVars, gameVars, cardVars, handVars>>

Next ==
    \/ CallFrequenicies
    \/ CallFrequencies
    \/ UpdateFrequencies
    \/ OverflowWrap
    \/ OverflowPanic
    \/ IndexPanic
    \/ Return

Spec == Init /\ [][Next]_vars

InitHistory ==
    /\ \E streets \in 0..2 : game = Deal(0, 1, streets, DeckHigh)
    /\ deck_high = DeckHigh
    /\ overflow_checks \in BOOLEAN
    /\ keep_hands = TRUE
    /\ CallIdle
    /\ CardIdle
    /\ HandIdle

SpecHistory == InitHistory /\ [][Next]_vars

(***************************************************************************)
(* SpecCards: get_used_cards and get_unused_cards on the games dealt from  *)
(* every offset of the full deck, every CardSteps-th card, in each street  *)
(* configuration.                                                          *)
(***************************************************************************)
CardSteps == {1, 3, 5}

InitCards ==
    /\ \E d \in 0..(Len(FullDeck) - 1) : \E step \in CardSteps : \E streets \in 0..2 :
           game = Deal(d, step, streets, MaxValue)
    /\ deck_high = MaxValue
    /\ overflow_checks = FALSE
    /\ keep_hands = FALSE
    /\ CallIdle
    /\ CardIdle
    /\ HandIdle

GetUsedCards ==
    /\ status = "ready"
    /\ used_cards' = get_used_cards(game)
    /\ status' = "used"
    /\ UNCHANGED <<fn, unused_cards, sites, job, comb, this_hand, this_table,
                   tableVars, historyVars, gameVars, cardVars, handVars>>

GetUnusedCards ==
    /\ status = "used"
    /\ unused_cards' = get_unused_cards(used_cards)
    /\ status' = "unused"
    /\ UNCHANGED <<fn, used_cards, sites, job, comb, this_hand, this_table,
                   tableVars, historyVars, gameVars, cardVars, handVars>>

NextCards == GetUsedCards \/ GetUnusedCards

SpecCards == InitCards /\ [][NextCards]_vars

(***************************************************************************)
(* The categories of a hand read off its cards without sorting them: by    *)
(* how often each rank occurs, by the set of ranks and by the set of       *)
(* suits.  The claims about get_best_hand are stated against these.        *)
(***************************************************************************)
RanksOf(h) == { h[i].value : i \in 1..Len(h) }

SuitsOf(h) == { h[i].suit : i \in 1..Len(h) }

TimesIn(h, r) == Cardinality({ i \in 1..Len(h) : h[i].value = r })

RanksTimes(h, n) == { r \in RanksOf(h) : TimesIn(h, r) = n }

IsWheel(h) == RanksOf(h) = {2, 3, 4, 5, 14}

FiveInARow(h) ==
    \/ IsWheel(h)
    \/ Cardinality(RanksOf(h)) = 5 /\ Highest(RanksOf(h)) - Lowest(RanksOf(h)) = 4

OneSuit(h) == Cardinality(SuitsOf(h)) = 1

FirstCategory(h) ==
    LET top == Highest(RanksOf(h))
    IN  IF FiveInARow(h) /\ OneSuit(h) /\ top = 14 THEN RoyalFlush
        ELSE IF FiveInARow(h) /\ OneSuit(h) THEN StraightFlush(top)
        ELSE IF RanksTimes(h, 4) # {} THEN FourOfAKind(Highest(RanksTimes(h, 4)))
        ELSE IF RanksTimes(h, 3) # {} /\ RanksTimes(h, 2) # {}
             THEN FullHouse(Highest(RanksTimes(h, 3)), Highest(RanksTimes(h, 2)))
        ELSE IF OneSuit(h) THEN Flush(top)
        ELSE IF FiveInARow(h) THEN Straight(top)
        ELSE IF RanksTimes(h, 3) # {} THEN ThreeOfAKind(Highest(RanksTimes(h, 3)))
        ELSE IF Cardinality(RanksTimes(h, 2)) = 2
             THEN TwoPair(Highest(RanksTimes(h, 2)), Lowest(RanksTimes(h, 2)))
        ELSE IF RanksTimes(h, 2) # {} THEN Pair(Highest(RanksTimes(h, 2)))
        ELSE HighCard(top)

(***************************************************************************)
(* C1.  Card::build(suit, value) returns Ok with the card of exactly that  *)
(* suit and value when 2 <= value <= 14, and for every other u8 value an   *)
(* error and no card.                                                      *)
(***************************************************************************)
C1_BuildIffInRange ==
    built # NotBuilt =>
        IF 2 <= arg_value /\ arg_value <= 14
        THEN built.ok /\ built.card = <<[suit |-> arg_suit, value |-> arg_value]>>
        ELSE ~built.ok /\ built.card = <<>>

C1_Witness == built.ok /\ arg_value = 14 /\ arg_suit = "Hearts"

C3_WheelIsFiveHigh ==
    (best # NoHand /\ IsWheel(hand)) =>
        best = IF OneSuit(hand) THEN StraightFlush(5) ELSE Straight(5)

(***************************************************************************)
(* C4.  get_best_hand returns the same Hand, variant and payload, for the  *)
(* same five cards passed in another order.                                *)
(***************************************************************************)
C4_OrderInvariant == [][best # NoHand => best' = best]_vars

C4_Witness ==
    /\ best.kind = "Straight"
    /\ hand[1].suit = "Clubs"
    /\ hand[1].value = 14
    /\ hand[5].suit = "Spades"

(***************************************************************************)
(* C5.  For a Game of pairwise distinct cards, used = get_used_cards() and *)
(* unused = get_unused_cards(used) share no card, neither repeats a card,  *)
(* together they are exactly the 52 cards of the deck, and                 *)
(* |unused| = 52 - (5 + number of present turn/river cards).               *)
(***************************************************************************)
AllCards ==
    { [suit |-> s, value |-> v] : s \in {"Spades", "Diamonds", "Clubs", "Hearts"}, v \in 2..14 }

C5_UsedUnusedPartition ==
    status = "unused" =>
        /\ Range(used_cards) \cap Range(unused_cards) = {}
        /\ NoRepeats(used_cards)
        /\ NoRepeats(unused_cards)
        /\ Range(used_cards) \cup Range(unused_cards) = AllCards
        /\ Cardinality(AllCards) = 52
        /\ Len(unused_cards) = 52 - (5 + Len(game.turn) + Len(game.river))

C5_Witness == status = "unused" /\ game.river # None /\ Len(unused_cards) = 45

RECURSIVE Choose(_, _)
Choose(n, k) ==
    IF k = 0 THEN 1
    ELSE IF k > n THEN 0
    ELSE Choose(n - 1, k - 1) + Choose(n - 1, k)

C7_OpponentSumIsChoose ==
    (fn = "get_best_hand_frequenicies" /\ status = "returned") =>
        Total(their_hand_frequencies) =
            Choose(Len(unused_cards), 5 - (3 + Len(game.turn) + Len(game.river)))

(***************************************************************************)
(* C8.  In each street configuration both methods run to completion: no    *)
(* call of get_best_hand indexes or slices past the end of its hand.       *)
(***************************************************************************)
C8_NoIndexPanic == status # "index_panic"

(***************************************************************************)
(* C9.  The count stored under each key is the number of hands classified  *)
(* to that key for that table: the u8 counter never passes 255 and every   *)
(* stored count is at least 1.                                             *)
(***************************************************************************)
C9_CountsExact ==
    /\ status # "overflow_panic"
    /\ my_hand_frequencies = my_exact
    /\ their_hand_frequencies = their_exact

(***************************************************************************)
(* C10.  During a call of get_best_hand_frequenicies no set of five cards  *)
(* is classified twice into the same table: the hand just counted into a   *)
(* table differs, as a card set, from every hand counted into it before.   *)
(* Holding after every call of update_frequencies, this says that any two  *)
(* hands counted into one table differ.                                    *)
(***************************************************************************)
IsNewLast(hands) == \A i \in 1..(Len(hands) - 1) : hands[i] # hands[Len(hands)]

C10_NoHandCountedTwice ==
    fn = "get_best_hand_frequenicies" => IsNewLast(my_hands) /\ IsNewLast(their_hands)

C10_Witness ==
    /\ fn = "get_best_hand_frequenicies"
    /\ status = "returned"
    /\ Len(my_hands) > 0
    /\ Len(their_hands) > 1000

(***************************************************************************)
(* C11.  Every hand passed to get_best_hand during a call of either        *)
(* method has exactly five cards, pairwise distinct.                       *)
(***************************************************************************)
C11_FiveDistinctCards ==
    this_table # "none" => Len(this_hand) = HandSize /\ NoRepeats(this_hand)

(***************************************************************************)
(* C12.  When the cards fixed for a perspective already total five, the    *)
(* table get_best_hand_frequenicies returns for it has exactly one entry,  *)
(* with count 1, under the classification of those five cards: the self    *)
(* table for hole and flop when turn and river are absent, the opponent    *)
(* table for flop, turn and river when both are present.                   *)
(***************************************************************************)
OneEntry(h) == [key \in {get_best_hand(h)} |-> 1]

C12_FixedFiveSingleEntry ==
    (fn = "get_best_hand_frequenicies" /\ status = "returned") =>
        /\ (game.turn = None /\ game.river = None) =>
               my_hand_frequencies = OneEntry(game.hole \o game.flop)
        /\ (game.turn # None /\ game.river # None) =>
               their_hand_frequencies = OneEntry(game.flop \o game.turn \o game.river)

(***************************************************************************)
(* C13.  In get_best_hand_frequenicies every hand counted into the         *)
(* opponent table contains the three flop cards, the turn when it is       *)
(* present and the river when it is present.                               *)
(***************************************************************************)
C13_KnownStreetsKept ==
    (fn = "get_best_hand_frequenicies" /\ this_table = "their") =>
        Range(game.flop \o game.turn \o game.river) \subseteq Range(this_hand)

=============================================================================
